---- MODULE Spec2Model ----
(***************************************************************************)
(* Model of OrderApp: the partition sort of utils_sort.py and the domain   *)
(* entities of models.py (Person/Customer contact validation, Customer     *)
(* order lists, Order item lists).                                         *)
(*                                                                         *)
(* Python lists are objects with identity: the model keeps them in a heap  *)
(* (a sequence of list contents, a reference is an index into it), so that *)
(* copying a list and handing out the list itself are different things.    *)
(***************************************************************************)
EXTENDS Integers, Sequences, FiniteSets

\* ---------------------------------------------------------------- bounds
MaxLen == 3        \* longest list handed to quicksort_orders
NumOrders == 3     \* distinct Order objects available to the sort
MaxKey == 3        \* keys are 1..MaxKey
MaxCustomers == 2  \* Customer objects constructed
MaxOrders == 2     \* Order objects constructed
MaxItems == 2      \* add_item is called on lists shorter than this
MaxOrderList == 1  \* add_order is called directly on lists shorter than this
MaxHeld == 2       \* the caller appends to a list it holds while shorter than this
MaxProducts == 2   \* Product objects constructed
MaxPrice == 2      \* prices are -MaxPrice..MaxPrice

OrderIds == 1..NumOrders
Keys == 1..MaxKey
CustomerIds == 1..MaxCustomers
OrderObjs == 1..MaxOrders

None == 0          \* Python's None, for a reference

\* ------------------------------------------------------------- variables
VARIABLES
  heap,        \* the list objects: heap[r] is the contents of list r
  key,         \* the key callable of the call: Order -> key
  reverse,     \* the reverse flag of the call
  orders,      \* reference of the list passed as `orders`
  given,       \* contents of `orders` when the call was made
  result,      \* reference returned by quicksort_orders, None before the call
  pc,          \* "start", "returned", "mutated" ("idle": no sort under way)
  customers,   \* the Customer objects constructed so far
  _email,      \* Person._email of each customer
  _phone,      \* Person._phone of each customer
  _orders,     \* Customer._orders of each customer: a list reference
  ordersMade,  \* the Order objects constructed so far
  customer,    \* Order.customer of each order
  _items,      \* Order._items of each order: a list reference
  held,        \* the list the caller holds (a reference), None if none
  heldKind,    \* what the held list holds: "orders", "items" or "none"
  last,        \* the operation that ran last, its arguments and what it raised
  returned,    \* what the last total_cost() or total_spent() call returned
  products     \* the Product objects constructed so far, in order

sortVars == <<key, reverse, orders, given, result, pc>>
contactVars == <<customers, _email, _phone>>
orderVars == <<_orders, ordersMade, customer, _items, held, heldKind>>
extraVars == <<returned, products>>
vars == <<heap, sortVars, contactVars, orderVars, last, extraVars>>

\* ------------------------------------------------------- list primitives
BoundedSeq(S, n) == UNION {[1..m -> S] : m \in 0..n}

Reverse(s) == [i \in 1..Len(s) |-> s[Len(s) + 1 - i]]

\* A new list object with the given contents.
Alloc(h, contents) == [heap |-> Append(h, contents), ref |-> Len(h) + 1]

\* (mutant) return orders: the list itself instead of a copy
SliceCopy_alias(h, o) == [heap |-> h, ref |-> o]

\* orders[:]
SliceCopy(h, o) == Alloc(h, h[o])

\* orders[len(orders) // 2]
Pivot(s) == s[(Len(s) \div 2) + 1]

\* [o for o in orders if key(o) < pivot_key]
LessPart(s, k, pivot_key) == SelectSeq(s, LAMBDA x : k[x] < pivot_key)

\* (mutant) the pivot alone taken as the equal group
EqualPart_pivotOnly(s, k, pivot_key) == <<Pivot(s)>>

\* (mutant) the equal group collected back to front
EqualPart_backwards(s, k, pivot_key) ==
  Reverse(SelectSeq(s, LAMBDA x : k[x] = pivot_key))

\* [o for o in orders if key(o) == pivot_key]
EqualPart(s, k, pivot_key) == SelectSeq(s, LAMBDA x : k[x] = pivot_key)

\* [o for o in orders if key(o) > pivot_key]
GreaterPart(s, k, pivot_key) == SelectSeq(s, LAMBDA x : k[x] > pivot_key)

\* result.reverse(): in place, on the list object r
ReverseInPlace(h, r) == [h EXCEPT ![r] = Reverse(@)]

\* quicksort_orders(orders, key, reverse) run on heap h with `orders` the
\* list o; yields the heap afterwards and the reference returned.
RECURSIVE quicksort_orders(_, _, _, _)
quicksort_orders(h, o, k, rev) ==
  IF Len(h[o]) <= 1
  THEN SliceCopy(h, o)
  ELSE LET pivot_key == k[Pivot(h[o])]
           less == Alloc(h, LessPart(h[o], k, pivot_key))
           equal == Alloc(less.heap, EqualPart(h[o], k, pivot_key))
           greater == Alloc(equal.heap, GreaterPart(h[o], k, pivot_key))
           sl == quicksort_orders(greater.heap, less.ref, k, rev)
           sg == quicksort_orders(sl.heap, greater.ref, k, rev)
           le == Alloc(sg.heap, sg.heap[sl.ref] \o sg.heap[equal.ref])
           res == Alloc(le.heap, le.heap[le.ref] \o le.heap[sg.ref])
       IN  IF rev
           THEN [heap |-> ReverseInPlace(res.heap, res.ref), ref |-> res.ref]
           ELSE res

\* ============================================================== models.py
\* Strings are sequences of one-character strings.  An optional string
\* (Optional[str]) is NoneStr or Some(s).
NoneStr == <<>>
Some(s) == <<s>>
IsNone(v) == v = NoneStr
Val(v) == v[1]

\* Python truthiness of an Optional[str]: None and "" are falsy
Truthy(v) == ~IsNone(v) /\ Len(Val(v)) > 0

Digits == {"0", "1", "2", "3", "4", "5", "6", "7", "8", "9"}
Letters == {"a", "b", "c"}

\* \d and \w of the re module
IsDigit(ch) == ch \in Digits
IsWord(ch) == ch \in (Letters \cup Digits \cup {"_"})

\* $ matches at the end of the string and just before a newline that ends it
EndPositions(s) ==
  {Len(s)} \cup (IF Len(s) > 0 /\ s[Len(s)] = "\n" THEN {Len(s) - 1} ELSE {})

\* EMAIL_RE.match(value): ^[\w\.-]+@[\w\.-]+\.\w+$
EmailMatch(s) ==
  \E e \in EndPositions(s) : \E at \in 2..e : \E dot \in (at + 2)..(e - 1) :
     /\ s[at] = "@"
     /\ s[dot] = "."
     /\ \A i \in 1..(at - 1) : IsWord(s[i]) \/ s[i] \in {".", "-"}
     /\ \A i \in (at + 1)..(dot - 1) : IsWord(s[i]) \/ s[i] \in {".", "-"}
     /\ \A i \in (dot + 1)..e : IsWord(s[i])

PhoneMinDigits == 7
PhoneMaxDigits == 15

\* PHONE_RE.match(value): ^\+?\d{7,15}$
PhoneMatch(s) ==
  \E e \in EndPositions(s) :
     LET first == IF Len(s) > 0 /\ s[1] = "+" THEN 2 ELSE 1
     IN  /\ (e - first + 1) >= PhoneMinDigits
         /\ (e - first + 1) <= PhoneMaxDigits
         /\ \A i \in first..e : IsDigit(s[i])

\* strings the callers of the model pass as email and phone
EmailStrings == {
    <<>>,
    <<"a", "b">>,
    <<"a", "@", "b", ".">>,
    <<"@", "b", ".", "c">>,
    <<"a", "@", "b", ".", "c">>,
    <<"a", "@", "b", ".", "c", "\n">>}
PhoneStrings == {
    <<>>,
    <<"a", "b", "c">>,
    <<"1", "2", "3", "4", "5", "6">>,
    <<"+", "1", "2", "3", "4", "5", "6", "7">>,
    <<"1", "2", "3", "4", "5", "6", "7", "8", "9", "0", "1", "2", "3", "4", "5">>,
    <<"1", "2", "3", "4", "5", "6", "7", "8", "9", "0", "1", "2", "3", "4", "5", "6">>}

\* ------------------------------------------------- Person and Customer
EmailArgs == {NoneStr} \cup {Some(s) : s \in EmailStrings}
PhoneArgs == {NoneStr} \cup {Some(s) : s \in PhoneStrings}

Last(op, c, o, e, p, r) ==
  [op |-> op, cust |-> c, order |-> o, email |-> e, phone |-> p, raised |-> r]

\* no Customer and no Order constructed yet
NoEntities ==
  /\ customers = {}
  /\ _email = [c \in CustomerIds |-> NoneStr]
  /\ _phone = [c \in CustomerIds |-> NoneStr]
  /\ _orders = [c \in CustomerIds |-> None]
  /\ ordersMade = {}
  /\ customer = [o \in OrderObjs |-> None]
  /\ _items = [o \in OrderObjs |-> None]
  /\ held = None
  /\ heldKind = "none"
  /\ last = Last("none", None, None, NoneStr, NoneStr, "")
  /\ returned = 0
  /\ products = <<>>

\* (mutant) the email setter storing the value before it validates it
EmailSetter_storeFirst(cur, value) ==
  IF ~EmailMatch(value)
  THEN [raised |-> "ValidationError", stored |-> Some(value)]
  ELSE [raised |-> "", stored |-> Some(value)]

\* Person.email setter, on a person whose _email is cur
EmailSetter(cur, value) ==
  IF ~EmailMatch(value)
  THEN [raised |-> "ValidationError", stored |-> cur]
  ELSE [raised |-> "", stored |-> Some(value)]

\* Person.phone setter, on a person whose _phone is cur
PhoneSetter(cur, value) ==
  IF ~PhoneMatch(value)
  THEN [raised |-> "ValidationError", stored |-> cur]
  ELSE [raised |-> "", stored |-> Some(value)]

\* Person.__init__(name, email, phone): what it raises, and the fields it set
PersonInit(e, p) ==
  LET r1 == IF Truthy(e) THEN EmailSetter(NoneStr, Val(e))
                         ELSE [raised |-> "", stored |-> NoneStr]
      r2 == IF r1.raised = "" /\ Truthy(p) THEN PhoneSetter(NoneStr, Val(p))
                                           ELSE [raised |-> "", stored |-> NoneStr]
  IN  [raised |-> IF r1.raised # "" THEN r1.raised ELSE r2.raised,
       email |-> r1.stored, phone |-> r2.stored]

\* where the lists of the entities live in the heap: each Customer's _orders,
\* each Order's _items, and the one list the caller holds
OrdersRef(c) == c
ItemsRef(o) == MaxCustomers + o
HeldRef == MaxCustomers + MaxOrders + 1
EntityHeap == [r \in 1..HeldRef |-> <<>>]

\* Customer(name, email, phone, city, customer_id)
NewCustomer(e, p) ==
  /\ Cardinality(customers) < MaxCustomers
  /\ LET c == Cardinality(customers) + 1
         r == PersonInit(e, p)
     IN  IF r.raised = ""
         THEN /\ customers' = customers \cup {c}
              /\ _email' = [_email EXCEPT ![c] = r.email]
              /\ _phone' = [_phone EXCEPT ![c] = r.phone]
              /\ _orders' = [_orders EXCEPT ![c] = OrdersRef(c)]
              /\ heap' = [heap EXCEPT ![OrdersRef(c)] = <<>>]
              /\ last' = Last("new_customer", c, None, e, p, "")
         ELSE /\ UNCHANGED <<customers, _email, _phone, _orders, heap>>
              /\ last' = Last("new_customer", None, None, e, p, r.raised)
  /\ UNCHANGED <<sortVars, extraVars, ordersMade, customer, _items, held, heldKind>>

ConstructCustomer == \E e \in EmailArgs : \E p \in PhoneArgs : NewCustomer(e, p)

\* c.email = value
SetEmail ==
  \E c \in customers : \E s \in EmailStrings :
     LET r == EmailSetter(_email[c], s)
     IN  /\ _email' = [_email EXCEPT ![c] = r.stored]
         /\ last' = Last("set_email", c, None, Some(s), NoneStr, r.raised)
         /\ UNCHANGED <<heap, sortVars, extraVars, customers, _phone, orderVars>>

\* c.phone = value
SetPhone ==
  \E c \in customers : \E s \in PhoneStrings :
     LET r == PhoneSetter(_phone[c], s)
     IN  /\ _phone' = [_phone EXCEPT ![c] = r.stored]
         /\ last' = Last("set_phone", c, None, NoneStr, Some(s), r.raised)
         /\ UNCHANGED <<heap, sortVars, extraVars, customers, _email, orderVars>>

\* no sort under way
NoSort ==
  /\ key = [o \in OrderIds |-> 1]
  /\ reverse = FALSE
  /\ orders = None
  /\ given = <<>>
  /\ result = None
  /\ pc = "idle"

InitEntities == heap = EntityHeap /\ NoSort /\ NoEntities

NextContact == ConstructCustomer \/ SetEmail \/ SetPhone

ContactSpec == InitEntities /\ [][NextContact]_vars

\* ------------------------------------------------- OrderItem and Order
\* the Product and OrderItem objects the callers of the model use
ProductPool == << [name |-> "Widget", price |-> 10], [name |-> "Nut", price |-> 3] >>
OrderItemPool == << [product |-> 1, quantity |-> 2], [product |-> 2, quantity |-> 1] >>
ItemIds == 1..Len(OrderItemPool)

\* (mutant) the cost of an item taken as the price of its product
cost_priceOnly(i) == ProductPool[OrderItemPool[i].product].price

\* OrderItem.cost()
cost(i) == ProductPool[OrderItemPool[i].product].price * OrderItemPool[i].quantity

RECURSIVE SumOf(_, _, _)
\* sum(f(x) for x in s), f given as the function tbl; sum starts from 0
SumOf(s, tbl, n) == IF n = 0 THEN 0 ELSE SumOf(s, tbl, n - 1) + tbl[s[n]]

\* Order.total_cost() of every order, with heap h and _items fields it
total_cost(h, it) ==
  [o \in OrderObjs |->
     IF it[o] = None THEN 0
     ELSE SumOf(h[it[o]], [i \in ItemIds |-> cost(i)], Len(h[it[o]]))]

\* Customer.total_spent() of every customer
total_spent(h, ords, it) ==
  [c \in CustomerIds |->
     IF ords[c] = None THEN 0
     ELSE SumOf(h[ords[c]], total_cost(h, it), Len(h[ords[c]]))]

\* (mutant) handing out the list itself
ListCopy_alias(h, r) == [heap |-> h, ref |-> r]

\* list(self._orders), list(self._items): a new list, which the caller holds
ListCopy(h, r) == [heap |-> [h EXCEPT ![HeldRef] = h[r]], ref |-> HeldRef]

\* self._items = items[:] if items else [] -- a new list for order o either way
ItemsOf(h, arg, o) ==
  [heap |-> [h EXCEPT ![ItemsRef(o)] =
               IF arg # None /\ Len(h[arg]) > 0 THEN h[arg] ELSE <<>>],
   ref |-> ItemsRef(o)]

\* (mutant) a new order put at the front of the list
add_order_front(h, r, o) == [h EXCEPT ![r] = <<o>> \o @]

\* Customer.add_order: self._orders.append(order), _orders being the list r
add_order(h, r, o) == [h EXCEPT ![r] = Append(@, o)]

\* Order.add_item: self._items.append(item)
add_item(h, r, i) == [h EXCEPT ![r] = Append(@, i)]

\* Customer(name): no email, no phone
ConstructPlainCustomer == NewCustomer(NoneStr, NoneStr)

\* Order(customer=c, items=arg); add_order raises nothing, so the except
\* branch of __init__ is never taken
NewOrder(c, arg) ==
  /\ Cardinality(ordersMade) < MaxOrders
  /\ LET o == Cardinality(ordersMade) + 1
         made == ItemsOf(heap, arg, o)
     IN  /\ ordersMade' = ordersMade \cup {o}
         /\ customer' = [customer EXCEPT ![o] = c]
         /\ _items' = [_items EXCEPT ![o] = made.ref]
         /\ heap' = add_order(made.heap, _orders[c], o)
         /\ last' = Last("new_order", None, None, NoneStr, NoneStr, "")
  /\ UNCHANGED <<sortVars, extraVars, contactVars, _orders, held, heldKind>>

ConstructOrder ==
  \E c \in customers :
     \E arg \in {None} \cup (IF heldKind = "items" THEN {held} ELSE {}) :
        NewOrder(c, arg)

\* c.add_order(o), called by anyone
AddOrder ==
  \E c \in customers : \E o \in ordersMade :
     /\ Len(heap[_orders[c]]) < MaxOrderList
     /\ heap' = add_order(heap, _orders[c], o)
     /\ last' = Last("add_order", None, None, NoneStr, NoneStr, "")
     /\ UNCHANGED <<sortVars, extraVars, contactVars, orderVars>>

\* o.add_item(item)
AddItem ==
  \E o \in ordersMade : \E i \in ItemIds :
     /\ Len(heap[_items[o]]) < MaxItems
     /\ heap' = add_item(heap, _items[o], i)
     /\ last' = Last("add_item", None, None, NoneStr, NoneStr, "")
     /\ UNCHANGED <<sortVars, extraVars, contactVars, orderVars>>

\* held = c.orders()
GetOrders ==
  \E c \in customers :
     LET r == ListCopy(heap, _orders[c])
     IN  /\ heap' = r.heap
         /\ held' = r.ref
         /\ heldKind' = "orders"
         /\ last' = Last("orders", None, None, NoneStr, NoneStr, "")
         /\ UNCHANGED <<sortVars, extraVars, contactVars, _orders, ordersMade, customer, _items>>

\* held = o.items()
GetItems ==
  \E o \in ordersMade :
     LET r == ListCopy(heap, _items[o])
     IN  /\ heap' = r.heap
         /\ held' = r.ref
         /\ heldKind' = "items"
         /\ last' = Last("items", None, None, NoneStr, NoneStr, "")
         /\ UNCHANGED <<sortVars, extraVars, contactVars, _orders, ordersMade, customer, _items>>

\* held = [item, ...]: the caller builds a list of items of its own
MakeList ==
  \E l \in BoundedSeq(ItemIds, MaxItems) :
     /\ heap' = [heap EXCEPT ![HeldRef] = l]
     /\ held' = HeldRef
     /\ heldKind' = "items"
     /\ last' = Last("make_list", None, None, NoneStr, NoneStr, "")
     /\ UNCHANGED <<sortVars, extraVars, contactVars, _orders, ordersMade, customer, _items>>

\* held.append(x)
HeldAppend ==
  /\ held # None
  /\ Len(heap[held]) < MaxHeld
  /\ \E x \in (IF heldKind = "orders" THEN ordersMade ELSE ItemIds) :
        heap' = [heap EXCEPT ![held] = Append(@, x)]
  /\ last' = Last("held_append", None, None, NoneStr, NoneStr, "")
  /\ UNCHANGED <<sortVars, extraVars, contactVars, orderVars>>

\* held.pop()
HeldPop ==
  /\ held # None
  /\ Len(heap[held]) > 0
  /\ heap' = [heap EXCEPT ![held] = SubSeq(@, 1, Len(@) - 1)]
  /\ last' = Last("held_pop", None, None, NoneStr, NoneStr, "")
  /\ UNCHANGED <<sortVars, extraVars, contactVars, orderVars>>

\* held.reverse()
HeldReverse ==
  /\ held # None
  /\ heap' = ReverseInPlace(heap, held)
  /\ last' = Last("held_reverse", None, None, NoneStr, NoneStr, "")
  /\ UNCHANGED <<sortVars, extraVars, contactVars, orderVars>>

NextOrders ==
  \/ ConstructPlainCustomer \/ ConstructOrder \/ AddOrder \/ AddItem
  \/ GetOrders \/ GetItems \/ MakeList
  \/ HeldAppend \/ HeldPop \/ HeldReverse

OrderSpec == InitEntities /\ [][NextOrders]_vars

\* t = o.total_cost()
CallTotalCost ==
  \E o \in ordersMade :
     /\ returned' = total_cost(heap, _items)[o]
     /\ last' = Last("total_cost", None, o, NoneStr, NoneStr, "")
     /\ UNCHANGED <<heap, sortVars, contactVars, orderVars, products>>

\* t = c.total_spent()
CallTotalSpent ==
  \E c \in customers :
     /\ returned' = total_spent(heap, _orders, _items)[c]
     /\ last' = Last("total_spent", c, None, NoneStr, NoneStr, "")
     /\ UNCHANGED <<heap, sortVars, contactVars, orderVars, products>>

NextTotals ==
  \/ ConstructPlainCustomer \/ ConstructOrder \/ AddOrder \/ AddItem
  \/ MakeList \/ CallTotalCost \/ CallTotalSpent

TotalsSpec == InitEntities /\ [][NextTotals]_vars

\* ---------------------------------------------------------------- Product
UuidHexLen == 32

\* what _generate_id() may return: uuid4().hex, 32 hexadecimal digits with
\* the version digit 4 and a variant digit
GeneratedIds ==
  {[i \in 1..UuidHexLen |-> IF i = 13 THEN "4" ELSE IF i = 17 THEN "8" ELSE f] :
     f \in {"0", "f"}}

Prices == (0 - MaxPrice)..MaxPrice
SkuArgs == {NoneStr, Some(<<>>), Some(<<"a", "b", "c">>)}

\* (mutant) the sku replaced only when it is None
ProductInit_skuIsNone(price, sku, g) ==
  IF price < 0
  THEN [raised |-> "ValidationError", sku |-> sku]
  ELSE [raised |-> "", sku |-> IF IsNone(sku) THEN Some(g) ELSE sku]

\* Product.__post_init__ on a Product with the given price and sku, g being
\* what _generate_id() returns if it is called
ProductInit(price, sku, g) ==
  IF price < 0
  THEN [raised |-> "ValidationError", sku |-> sku]
  ELSE [raised |-> "", sku |-> IF ~Truthy(sku) THEN Some(g) ELSE sku]

\* Product(name="Widget", price=price, sku=sku)
ConstructProduct ==
  /\ Len(products) < MaxProducts
  /\ \E price \in Prices : \E sku \in SkuArgs : \E g \in GeneratedIds :
        LET r == ProductInit(price, sku, g)
        IN  /\ products' = IF r.raised = ""
                           THEN Append(products,
                                       [name |-> "Widget", price |-> price, sku |-> r.sku])
                           ELSE products
            /\ last' = [op |-> "new_product", price |-> price, sku |-> sku,
                        raised |-> r.raised]
  /\ UNCHANGED <<heap, sortVars, contactVars, orderVars, returned>>

NextProducts == ConstructProduct

ProductSpec == InitEntities /\ [][NextProducts]_vars

\* ------------------------------------------------------- contact: claims
\* C6: an assignment of a string that does not match the pattern raises
\* ValidationError and leaves the stored email and phone as they were; an
\* assignment of a matching string stores it.  Every assignment, not only
\* the first.
C6_SetterValidates ==
  [][ /\ (last'.op = "set_email") =>
           IF EmailMatch(Val(last'.email))
           THEN /\ last'.raised = ""
                /\ _email'[last'.cust] = last'.email
                /\ _phone' = _phone
           ELSE /\ last'.raised = "ValidationError"
                /\ _email' = _email
                /\ _phone' = _phone
      /\ (last'.op = "set_phone") =>
           IF PhoneMatch(Val(last'.phone))
           THEN /\ last'.raised = ""
                /\ _phone'[last'.cust] = last'.phone
                /\ _email' = _email
           ELSE /\ last'.raised = "ValidationError"
                /\ _email' = _email
                /\ _phone' = _phone
    ]_vars

\* a rejected assignment to a customer that already stores a valid email
C6_Witness ==
  /\ last.op = "set_email"
  /\ last.raised = "ValidationError"
  /\ ~IsNone(_email[last.cust])
  /\ ~IsNone(_phone[last.cust])

\* C7: constructing a Customer with an email or phone argument that is a
\* string not matching its pattern, the empty string included, raises
\* ValidationError and creates no Customer.
C7_ConstructionValidates ==
  ( /\ last.op = "new_customer"
    /\ \/ (~IsNone(last.email) /\ ~EmailMatch(Val(last.email)))
       \/ (~IsNone(last.phone) /\ ~PhoneMatch(Val(last.phone))) )
  => (last.raised = "ValidationError" /\ last.cust = None)

\* ------------------------------------------------------------ sort: spec
InitSort ==
  /\ key \in [OrderIds -> Keys]
  /\ reverse \in BOOLEAN
  /\ given \in BoundedSeq(OrderIds, MaxLen)
  /\ heap = <<given>>
  /\ orders = 1
  /\ result = None
  /\ pc = "start"
  /\ NoEntities

\* the caller runs result = quicksort_orders(orders, key, reverse)
Call ==
  /\ pc = "start"
  /\ LET r == quicksort_orders(heap, orders, key, reverse)
     IN  /\ heap' = r.heap
         /\ result' = r.ref
  /\ pc' = "returned"
  /\ UNCHANGED <<key, reverse, orders, given, contactVars, orderVars, last, extraVars>>

\* the caller mutates the list it was handed back
MutateAppend ==
  /\ pc = "returned"
  /\ \E x \in OrderIds : heap' = [heap EXCEPT ![result] = Append(@, x)]
  /\ pc' = "mutated"
  /\ UNCHANGED <<key, reverse, orders, given, result, contactVars, orderVars, last, extraVars>>

MutatePop ==
  /\ pc = "returned"
  /\ Len(heap[result]) > 0
  /\ heap' = [heap EXCEPT ![result] = SubSeq(@, 1, Len(@) - 1)]
  /\ pc' = "mutated"
  /\ UNCHANGED <<key, reverse, orders, given, result, contactVars, orderVars, last, extraVars>>

MutateReverse ==
  /\ pc = "returned"
  /\ heap' = ReverseInPlace(heap, result)
  /\ pc' = "mutated"
  /\ UNCHANGED <<key, reverse, orders, given, result, contactVars, orderVars, last, extraVars>>

NextSort == Call \/ MutateAppend \/ MutatePop \/ MutateReverse

SortSpec == InitSort /\ [][NextSort]_vars

\* ---------------------------------------------------------- sort: claims
Count(s, x) == Len(SelectSeq(s, LAMBDA y : y = x))

\* same orders, same multiplicities
IsPermutation(s, t) ==
  /\ Len(s) = Len(t)
  /\ \A x \in OrderIds : Count(s, x) = Count(t, x)

NonDecreasing(s, k) == \A i \in 1..(Len(s) - 1) : k[s[i]] <= k[s[i + 1]]
NonIncreasing(s, k) == \A i \in 1..(Len(s) - 1) : k[s[i]] >= k[s[i + 1]]

\* a occurs somewhere before b in s
Precedes(s, a, b) ==
  \E p \in 1..Len(s) : \E q \in (p + 1)..Len(s) : s[p] = a /\ s[q] = b

\* C1: with reverse=False the list returned is a permutation of the input
\* whose keys are non-decreasing from first to last.
C1_AscendingSorted ==
  (pc = "returned" /\ ~reverse) =>
     /\ IsPermutation(heap[result], given)
     /\ NonDecreasing(heap[result], key)

C1_Witness ==
  /\ pc = "returned" /\ ~reverse
  /\ Len(given) = MaxLen
  /\ ~NonDecreasing(given, key)
  /\ \E i \in 1..Len(given) : \E j \in 1..Len(given) :
        i # j /\ given[i] # given[j] /\ key[given[i]] = key[given[j]]

\* C2: with reverse=True the list returned is a permutation of the input
\* whose keys are non-increasing from first to last (descending order).
C2_DescendingSorted ==
  (pc = "returned" /\ reverse) =>
     /\ IsPermutation(heap[result], given)
     /\ NonIncreasing(heap[result], key)

\* C3: with reverse=False the sort is stable: two different orders with equal
\* keys come out in the order they went in.
C3_AscendingStable ==
  (pc = "returned" /\ ~reverse) =>
     \A a \in OrderIds : \A b \in OrderIds :
        (a # b /\ key[a] = key[b] /\ Precedes(given, a, b) /\ ~Precedes(given, b, a))
           => (Precedes(heap[result], a, b) /\ ~Precedes(heap[result], b, a))

C3_Witness ==
  /\ pc = "returned" /\ ~reverse
  /\ \E a \in OrderIds : \E b \in OrderIds :
        /\ a # b /\ key[a] = key[b]
        /\ Precedes(given, a, b) /\ ~Precedes(given, b, a)
        /\ key[Pivot(given)] # key[a]
  /\ heap[result] # given

\* C4: with reverse=True two different orders with equal keys come out in
\* the opposite order to the one they went in.
C4_DescendingInverts ==
  (pc = "returned" /\ reverse) =>
     \A a \in OrderIds : \A b \in OrderIds :
        (a # b /\ key[a] = key[b] /\ Precedes(given, a, b) /\ ~Precedes(given, b, a))
           => (Precedes(heap[result], b, a) /\ ~Precedes(heap[result], a, b))

\* C5: the call leaves the list passed in as it was and returns another list
\* object, so that mutating what was returned leaves the input as it was;
\* for every length, 0 and 1 included, and either direction.
C5_InputUntouched ==
  (pc # "start") =>
     /\ heap[orders] = given
     /\ result # orders

C5_Witness ==
  /\ pc = "mutated"
  /\ Len(given) <= 1
  /\ heap[result] # given
  /\ heap[orders] = given

\* -------------------------------------------------------- order: claims
\* what c.orders() and o.items() return
OrdersOf(h, ords, c) == h[ords[c]]
ItemsIn(h, it, o) == h[it[o]]

\* C8: constructing an Order with customer=c succeeds and registers it:
\* right afterwards c.orders() is what it was before with the new Order
\* appended as its last element.
C8_OrderRegisters ==
  [][ (last'.op = "new_order") =>
        /\ last'.raised = ""
        /\ Cardinality(ordersMade' \ ordersMade) = 1
        /\ \A o \in ordersMade' \ ordersMade :
              /\ customer'[o] \in customers
              /\ OrdersOf(heap', _orders', customer'[o])
                    = Append(OrdersOf(heap, _orders, customer'[o]), o)
    ]_vars

\* a second order registered with the customer of the first
C8_Witness ==
  /\ last.op = "new_order"
  /\ ordersMade = {1, 2}
  /\ customer[1] = customer[2]
  /\ OrdersOf(heap, _orders, customer[2]) = <<1, 2>>

\* C9: after any sequence of the public operations, add_order among them,
\* every Order is exactly once in the order list of its own customer and
\* in no other customer's order list.
C9_OneCustomerPerOrder ==
  \A o \in ordersMade :
     /\ Count(OrdersOf(heap, _orders, customer[o]), o) = 1
     /\ \A c \in customers \ {customer[o]} : Count(OrdersOf(heap, _orders, c), o) = 0

HeldOps == {"held_append", "held_pop", "held_reverse"}

\* C10: what orders() and items() return are snapshots: the caller appending
\* to, removing from or reordering one changes no customer's orders(), no
\* order's items(), no total_spent() and no total_cost(); the internal lists
\* change only through add_order (Order construction calls it) and add_item.
C10_Snapshots ==
  [][ /\ (last'.op \in HeldOps) =>
           /\ \A c \in customers :
                 OrdersOf(heap', _orders', c) = OrdersOf(heap, _orders, c)
           /\ \A o \in ordersMade :
                 ItemsIn(heap', _items', o) = ItemsIn(heap, _items, o)
           /\ total_spent(heap', _orders', _items') = total_spent(heap, _orders, _items)
           /\ total_cost(heap', _items') = total_cost(heap, _items)
      /\ (\E c \in customers :
             OrdersOf(heap', _orders', c) # OrdersOf(heap, _orders, c))
           => last'.op \in {"new_order", "add_order"}
      /\ (\E o \in ordersMade :
             ItemsIn(heap', _items', o) # ItemsIn(heap, _items, o))
           => last'.op = "add_item"
    ]_vars

\* the caller has reordered the snapshot of a customer's two orders
C10_Witness ==
  /\ last.op = "held_reverse"
  /\ heldKind = "orders"
  /\ \E c \in customers :
        /\ Len(OrdersOf(heap, _orders, c)) >= 2
        /\ heap[held] = Reverse(OrdersOf(heap, _orders, c))
        /\ heap[held] # OrdersOf(heap, _orders, c)

\* ------------------------------------------------------- totals: claims
RECURSIVE SetSum(_, _)
\* the sum of f[x] over the x of the finite set S
SetSum(S, f) ==
  IF S = {} THEN 0
  ELSE LET x == CHOOSE y \in S : TRUE IN f[x] + SetSum(S \ {x}, f)

\* the sum of product.price * quantity over the items of the list s
ItemsTotal(s) ==
  SetSum(ItemIds,
         [i \in ItemIds |->
            Count(s, i) * ProductPool[OrderItemPool[i].product].price
                        * OrderItemPool[i].quantity])

\* the sum, over the entries of the order list s, of the orders' item totals
OrdersTotal(s) ==
  SetSum(ordersMade,
         [o \in ordersMade |-> Count(s, o) * ItemsTotal(ItemsIn(heap, _items, o))])

\* C11: whenever it is called, order.total_cost() is the sum of
\* product.price * quantity over the order's items at that moment, 0 with no
\* items, and customer.total_spent() is the sum of that over the entries of
\* the customer's order list at that moment, 0 with no orders; items added
\* after the order was registered count.
C11_Totals ==
  /\ (last.op = "total_cost") =>
        returned = ItemsTotal(ItemsIn(heap, _items, last.order))
  /\ (last.op = "total_spent") =>
        returned = OrdersTotal(OrdersOf(heap, _orders, last.cust))

\* total_spent() of a customer with two orders of different, non-zero totals
C11_Witness ==
  /\ last.op = "total_spent"
  /\ OrdersOf(heap, _orders, last.cust) = <<1, 2>>
  /\ ItemsTotal(ItemsIn(heap, _items, 1)) > 0
  /\ ItemsTotal(ItemsIn(heap, _items, 2)) > ItemsTotal(ItemsIn(heap, _items, 1))
  /\ Len(ItemsIn(heap, _items, 2)) = MaxItems
  /\ returned = ItemsTotal(ItemsIn(heap, _items, 1)) + ItemsTotal(ItemsIn(heap, _items, 2))

\* ------------------------------------------------------ product: claims
\* C12: constructing a Product with a price below 0 raises ValidationError
\* and yields no Product; with a price of 0 or more it succeeds and the sku
\* of the Product is not empty, whether the sku was given, left out or given
\* as the empty string.
C12_ProductValidates ==
  [][ (last'.op = "new_product") =>
        IF last'.price < 0
        THEN /\ last'.raised = "ValidationError"
             /\ products' = products
        ELSE /\ last'.raised = ""
             /\ Len(products') = Len(products) + 1
             /\ SubSeq(products', 1, Len(products)) = products
             /\ products'[Len(products')].price = last'.price
             /\ ~IsNone(products'[Len(products')].sku)
             /\ Len(Val(products'[Len(products')].sku)) > 0
    ]_vars

\* a Product of price 0 constructed with the empty string as its sku
C12_Witness ==
  /\ last.op = "new_product"
  /\ last.price = 0
  /\ last.sku = Some(<<>>)
  /\ last.raised = ""
  /\ Len(products) > 0
  /\ products[Len(products)].price = 0
  /\ Len(Val(products[Len(products)].sku)) = UuidHexLen

====
